---- MODULE Spec2Model ----
(***************************************************************************)
(* HBnB: the authorization-aware entity mutation layer.                    *)
(*                                                                         *)
(* The state is the four repositories (users, places, reviews, amenities)  *)
(* and the access tokens issued by /auth/login.  An action is one HTTP     *)
(* handler of app/api/v1 together with the facade call it makes            *)
(* (app/services/facade.py) and the entity code that call runs             *)
(* (app/models).  What a handler answers and what it stores is an operator *)
(* (...Result) of the request and the current state; the action stores     *)
(* what that operator says.  The facade operations are operators of their  *)
(* own, so that they can also be driven directly (SpecFacade).             *)
(*                                                                         *)
(* A repository is the sequence of its rows in insertion order.  A row is  *)
(* a record of the entity's public attributes.  A request payload (a JSON  *)
(* object, a Python dict) is a sequence of [k, v] pairs in key order.      *)
(***************************************************************************)
EXTENDS Integers, Sequences, FiniteSets, TLC

VARIABLES users, places, reviews, amenities, tokens, nextId, calls, clock

vars == <<users, places, reviews, amenities, tokens, nextId, calls, clock>>

(***************************************************************************)
(* Bounds of the model.                                                    *)
(***************************************************************************)
MaxUsers == 2
MaxPlaces == 2
MaxReviews == 2
MaxAmenities == 2
MaxCalls == 2
MaxClock == 2

(***************************************************************************)
(* Dicts (payloads) and rows.                                              *)
(***************************************************************************)
KV(k, v) == [k |-> k, v |-> v]

Has(d, key) == \E i \in DOMAIN d : d[i].k = key

Get(d, key) == d[CHOOSE i \in DOMAIN d : d[i].k = key /\ \A j \in DOMAIN d : d[j].k = key => j <= i].v

\* dict comprehension {k: v for k, v in d.items() if k != key}, also dict.pop(key)
Without(d, key) == SelectSeq(d, LAMBDA e : e.k # key)

\* d[key] = v: replaces the value in place when the key is present, else appends
SetKey(d, key, v) ==
    IF Has(d, key) THEN [i \in DOMAIN d |-> IF d[i].k = key THEN KV(key, v) ELSE d[i]]
    ELSE Append(d, KV(key, v))

Rows(repo) == {repo[i] : i \in DOMAIN repo}

Ids(repo) == {repo[i].id : i \in DOMAIN repo}

\* repository get(id): the row, when Ids(repo) holds the id
RepoGet(repo, id) == repo[CHOOSE i \in DOMAIN repo : repo[i].id = id]

\* repository add(entity)
RepoAdd(repo, row) == Append(repo, row)

\* repository delete(id)
RepoDelete(repo, id) == SelectSeq(repo, LAMBDA r : r.id # id)

\* the row with this id replaced (the commit of a mutated entity)
RepoPut(repo, row, id) == [i \in DOMAIN repo |-> IF repo[i].id = id THEN row ELSE repo[i]]

Id(kind, n) == <<kind, n>>

NoError == "none"

(***************************************************************************)
(* Entity validators (BaseModel).                                          *)
(***************************************************************************)
\* str.strip() == "": the sample strings that are empty or whitespace only
Blank == {"", "  "}

ValidateStringLengthFails(value, max_length) ==
    \/ value \in Blank
    \/ Len(value) > max_length

\* the sample strings that match ^[a-zA-Z0-9._%+-]+@[a-zA-Z0-9.-]+\.[a-zA-Z]{2,}$
MatchesEmailPattern == {"admin@hbnb.com", "a@x.io", "b@x.io", "c@x.io"}

ValidateEmail(email) == email \in MatchesEmailPattern

NameMaxLength == 50

TitleMaxLength == 100

\* bcrypt: an opaque digest of the plaintext
HashPassword(password) == <<"bcrypt", password>>

NoPassword == <<"bcrypt">>

(***************************************************************************)
(* BaseModel.update: each key the object has is set through its setter, in *)
(* dict order, until a setter raises.                                      *)
(***************************************************************************)
\* the error a setter raises for this value, or NoError
SetterError(kind, key, value) ==
    CASE kind = "user" /\ key = "first_name" ->
           IF ValidateStringLengthFails(value, NameMaxLength) THEN "First name invalid" ELSE NoError
      [] kind = "user" /\ key = "last_name" ->
           IF ValidateStringLengthFails(value, NameMaxLength) THEN "Last name invalid" ELSE NoError
      [] kind = "user" /\ key = "email" ->
           IF value \in Blank \/ ~ValidateEmail(value) THEN "Invalid email format." ELSE NoError
      [] kind = "place" /\ key = "title" ->
           IF ValidateStringLengthFails(value, TitleMaxLength) THEN "Title invalid" ELSE NoError
      [] kind = "place" /\ key = "price" ->
           IF value <= 0 THEN "Price must be a positive value." ELSE NoError
      [] kind = "place" /\ key = "latitude" ->
           IF value < -90 \/ value > 90 THEN "Latitude out of range" ELSE NoError
      [] kind = "place" /\ key = "longitude" ->
           IF value < -180 \/ value > 180 THEN "Longitude out of range" ELSE NoError
      [] kind = "review" /\ key = "text" ->
           IF value \in Blank THEN "Review text is required and cannot be empty." ELSE NoError
      [] kind = "review" /\ key = "rating" ->
           IF value < 1 \/ value > 5 THEN "Rating must be between 1 and 5." ELSE NoError
      [] kind = "amenity" /\ key = "name" ->
           IF ValidateStringLengthFails(value, NameMaxLength) THEN "Amenity name invalid" ELSE NoError
      [] OTHER -> NoError

\* hasattr(self, key): the public attributes of the entity (User keeps its digest
\* in _password, which no payload key of the model names)
HasAttr(obj, key) == key \in DOMAIN obj /\ key # "password"

\* update catching the error of a setter and going on with the next key
RECURSIVE BaseModelUpdate_SkipInvalid(_, _, _)
BaseModelUpdate_SkipInvalid(kind, obj, data) ==
    IF data = <<>> THEN [obj |-> [obj EXCEPT !.updated_at = clock], error |-> NoError]
    ELSE LET e == Head(data) IN
         IF HasAttr(obj, e.k) /\ SetterError(kind, e.k, e.v) = NoError
         THEN BaseModelUpdate_SkipInvalid(kind, [obj EXCEPT ![e.k] = e.v], Tail(data))
         ELSE BaseModelUpdate_SkipInvalid(kind, obj, Tail(data))

\* update setting the attributes and leaving out save()
RECURSIVE BaseModelUpdate_NoSave(_, _, _)
BaseModelUpdate_NoSave(kind, obj, data) ==
    IF data = <<>> THEN [obj |-> obj, error |-> NoError]
    ELSE LET e == Head(data) IN
         IF HasAttr(obj, e.k)
         THEN IF SetterError(kind, e.k, e.v) # NoError
              THEN [obj |-> obj, error |-> SetterError(kind, e.k, e.v)]
              ELSE BaseModelUpdate_NoSave(kind, [obj EXCEPT ![e.k] = e.v], Tail(data))
         ELSE BaseModelUpdate_NoSave(kind, obj, Tail(data))

\* BaseModel.update: setattr for every key the object has, then save()
RECURSIVE BaseModelUpdate(_, _, _)
BaseModelUpdate(kind, obj, data) ==
    IF data = <<>> THEN [obj |-> [obj EXCEPT !.updated_at = clock], error |-> NoError]
    ELSE LET e == Head(data) IN
         IF HasAttr(obj, e.k)
         THEN IF SetterError(kind, e.k, e.v) # NoError
              THEN [obj |-> obj, error |-> SetterError(kind, e.k, e.v)]
              ELSE BaseModelUpdate(kind, [obj EXCEPT ![e.k] = e.v], Tail(data))
         ELSE BaseModelUpdate(kind, obj, Tail(data))

\* repository update(id, data) on a loaded entity: the entity's update, then the
\* commit; when a setter raises nothing is committed and the row stays as stored
RepoUpdate(kind, repo, obj, data) ==
    LET r == BaseModelUpdate(kind, obj, data)
    IN IF r.error = NoError
       THEN [repo |-> RepoPut(repo, r.obj, obj.id), error |-> NoError]
       ELSE [repo |-> repo, error |-> r.error]

(***************************************************************************)
(* Users: app/models/user.py, HBnBFacade user methods.                     *)
(***************************************************************************)
\* the lookup comparing only the first stored row
EmailRegistered_FirstRow(email) == users # <<>> /\ users[1].email = email

\* UserRepository.get_user_by_email: filter_by(email=email).first()
EmailRegistered(email) == \E i \in DOMAIN users : users[i].email = email

GetUserByEmail(email) ==
    users[CHOOSE i \in DOMAIN users :
            users[i].email = email /\ \A j \in DOMAIN users : users[j].email = email => i <= j]

\* User.__init__: the setters in the order first_name, last_name, email
UserInitError(data) ==
    IF SetterError("user", "first_name", Get(data, "first_name")) # NoError
    THEN SetterError("user", "first_name", Get(data, "first_name"))
    ELSE IF SetterError("user", "last_name", Get(data, "last_name")) # NoError
    THEN SetterError("user", "last_name", Get(data, "last_name"))
    ELSE SetterError("user", "email", Get(data, "email"))

\* User.hash_password when the password is truthy
PasswordOf(data) ==
    IF Has(data, "password") /\ Get(data, "password") # ""
    THEN HashPassword(Get(data, "password")) ELSE NoPassword

NewUser(data) ==
    [id |-> Id("user", nextId.user),
     first_name |-> Get(data, "first_name"),
     last_name |-> Get(data, "last_name"),
     email |-> Get(data, "email"),
     is_admin |-> IF Has(data, "is_admin") THEN Get(data, "is_admin") ELSE FALSE,
     password |-> PasswordOf(data),
     created_at |-> clock, updated_at |-> clock]

EmailConflict == "Email already registered"

\* create_user without the registered-email check
FacadeCreateUser_NoEmailCheck(data) ==
    IF UserInitError(data) # NoError
    THEN [error |-> UserInitError(data), users |-> users]
    ELSE [error |-> NoError, users |-> RepoAdd(users, NewUser(data))]

\* HBnBFacade.create_user for a dict holding first_name, last_name, email
FacadeCreateUser(data) ==
    IF EmailRegistered(Get(data, "email"))
    THEN [error |-> EmailConflict, users |-> users]
    ELSE IF UserInitError(data) # NoError
    THEN [error |-> UserInitError(data), users |-> users]
    ELSE [error |-> NoError, users |-> RepoAdd(users, NewUser(data))]

NotFound == "not found"

\* HBnBFacade.update_user
FacadeUpdateUser(user_id, data) ==
    IF user_id \notin Ids(users)
    THEN [error |-> NotFound, users |-> users]
    ELSE LET user == RepoGet(users, user_id) IN
         IF Has(data, "email") /\ Get(data, "email") # user.email
            /\ EmailRegistered(Get(data, "email"))
         THEN [error |-> EmailConflict, users |-> users]
         ELSE LET hashed == IF Has(data, "password")
                            THEN [user EXCEPT !.password = HashPassword(Get(data, "password"))]
                            ELSE user
                  r == RepoUpdate("user", users, hashed, Without(data, "password"))
              IN [error |-> r.error, users |-> r.repo]

(***************************************************************************)
(* Tokens (app/api/v1/auth.py).                                            *)
(***************************************************************************)
\* a request that carries no valid token (jwt_required answers 401)
Anonymous == [sub |-> Id("anonymous", 0), is_admin |-> FALSE]

\* Login.post: the token it answers with, when the credentials are valid
LoginResult(email, password) ==
    IF EmailRegistered(email) /\ GetUserByEmail(email).password = HashPassword(password)
    THEN [status |-> 200,
          issued |-> {[sub |-> GetUserByEmail(email).id,
                       is_admin |-> GetUserByEmail(email).is_admin]}]
    ELSE [status |-> 401, issued |-> {}]

Login(email, password) ==
    /\ tokens' = tokens \cup LoginResult(email, password).issued
    /\ UNCHANGED <<users, places, reviews, amenities, nextId, calls, clock>>

(***************************************************************************)
(* app/api/v1/users.py                                                     *)
(***************************************************************************)
\* UserList.post (public)
UserListPostResult(data) ==
    LET r == FacadeCreateUser(data)
    IN [status |-> IF r.error = NoError THEN 201 ELSE 400, error |-> r.error, users |-> r.users]

UserListPost(data) ==
    LET r == UserListPostResult(data) IN
    /\ r.status = 201 => nextId.user <= MaxUsers
    /\ users' = r.users
    /\ nextId' = IF r.status = 201 THEN [nextId EXCEPT !.user = @ + 1] ELSE nextId
    /\ UNCHANGED <<places, reviews, amenities, tokens, calls, clock>>

Unauthorized == "Unauthorized action"

CannotModify == "You cannot modify email or password"

EmailInUse == "Email already in use"

MissingToken == "Missing Authorization Header"

\* the permission check letting every authenticated caller through
UserForbidden_AdminOnly(tok, user_id) == tok.is_admin /\ user_id # tok.sub

\* the permission check of UserResource.put
UserForbidden(tok, user_id) == ~tok.is_admin /\ user_id # tok.sub

\* the restriction to the email key alone
IdentityKeysForbidden_EmailOnly(tok, data) == ~tok.is_admin /\ Has(data, "email")

\* the restriction of UserResource.put on regular users
IdentityKeysForbidden(tok, data) ==
    ~tok.is_admin /\ (Has(data, "email") \/ Has(data, "password"))

\* UserResource.put
UserPutResult(tok, user_id, data) ==
    IF tok \notin tokens
    THEN [status |-> 401, error |-> MissingToken, users |-> users]
    ELSE IF UserForbidden(tok, user_id)
    THEN [status |-> 403, error |-> Unauthorized, users |-> users]
    ELSE IF IdentityKeysForbidden(tok, data)
    THEN [status |-> 400, error |-> CannotModify, users |-> users]
    ELSE IF tok.is_admin /\ Has(data, "email") /\ EmailRegistered(Get(data, "email"))
            /\ GetUserByEmail(Get(data, "email")).id # user_id
    THEN [status |-> 400, error |-> EmailInUse, users |-> users]
    ELSE LET r == FacadeUpdateUser(user_id, data)
         IN [status |-> IF r.error = NoError THEN 200
                        ELSE IF r.error = NotFound THEN 404 ELSE 400,
             error |-> r.error, users |-> r.users]

UserPut(tok, user_id, data) ==
    LET r == UserPutResult(tok, user_id, data) IN
    /\ users' = r.users
    /\ UNCHANGED <<places, reviews, amenities, tokens, nextId, calls, clock>>

(***************************************************************************)
(* app/init_data.py                                                        *)
(***************************************************************************)
AdminEmail == "admin@hbnb.com"

AdminData ==
    <<KV("first_name", "Admin"), KV("last_name", "User"), KV("email", AdminEmail),
      KV("password", "admin123"), KV("is_admin", TRUE)>>

\* the seed step creating a missing admin and leaving a stored user as found
InitDefaultAdminResult_NoPromotion ==
    IF ~EmailRegistered(AdminEmail)
    THEN LET r == FacadeCreateUser(AdminData)
         IN [created |-> r.error = NoError, users |-> r.users]
    ELSE [created |-> FALSE, users |-> users]

\* init_default_admin: the users it leaves, and whether it created one; an
\* exception of create_user is caught and the step ends normally
InitDefaultAdminResult ==
    IF ~EmailRegistered(AdminEmail)
    THEN LET r == FacadeCreateUser(AdminData)
         IN [created |-> r.error = NoError, users |-> r.users]
    ELSE LET a == GetUserByEmail(AdminEmail)
         IN [created |-> FALSE,
             users |-> IF ~a.is_admin THEN RepoPut(users, [a EXCEPT !.is_admin = TRUE], a.id)
                       ELSE users]

\* init_default_admin, run by create_app at every process start
InitDefaultAdmin ==
    LET r == InitDefaultAdminResult IN
    /\ r.created => nextId.user <= MaxUsers
    /\ users' = r.users
    /\ nextId' = IF r.created THEN [nextId EXCEPT !.user = @ + 1] ELSE nextId
    /\ UNCHANGED <<places, reviews, amenities, tokens, calls, clock>>

(***************************************************************************)
(* Places: app/models/place.py, HBnBFacade place methods.                  *)
(***************************************************************************)
\* Place.__init__: the setters in the order title, price, latitude, longitude
\* (description and owner_id accept every value the callers pass)
PlaceInitError(data) ==
    IF SetterError("place", "title", Get(data, "title")) # NoError
    THEN SetterError("place", "title", Get(data, "title"))
    ELSE IF SetterError("place", "price", Get(data, "price")) # NoError
    THEN SetterError("place", "price", Get(data, "price"))
    ELSE IF SetterError("place", "latitude", Get(data, "latitude")) # NoError
    THEN SetterError("place", "latitude", Get(data, "latitude"))
    ELSE SetterError("place", "longitude", Get(data, "longitude"))

NewPlace(data) ==
    [id |-> Id("place", nextId.place),
     title |-> Get(data, "title"),
     description |-> Get(data, "description"),
     price |-> Get(data, "price"),
     latitude |-> Get(data, "latitude"),
     longitude |-> Get(data, "longitude"),
     owner_id |-> Get(data, "owner_id"),
     amenities |-> <<>>,
     created_at |-> clock, updated_at |-> clock]

InvalidOwner == "Invalid owner_id"

OwnerNotFound == "Owner not found"

\* create_place checking only that an owner_id is given
FacadeCreatePlace_OwnerGiven(data) ==
    IF ~Has(data, "owner_id")
    THEN [error |-> InvalidOwner, places |-> places]
    ELSE IF PlaceInitError(data) # NoError
    THEN [error |-> PlaceInitError(data), places |-> places]
    ELSE [error |-> NoError, places |-> RepoAdd(places, NewPlace(Without(data, "amenities")))]

\* HBnBFacade.create_place for a dict holding title, description, price,
\* latitude, longitude
FacadeCreatePlace(data) ==
    IF ~Has(data, "owner_id") \/ Get(data, "owner_id") \notin Ids(users)
    THEN [error |-> InvalidOwner, places |-> places]
    ELSE IF PlaceInitError(data) # NoError
    THEN [error |-> PlaceInitError(data), places |-> places]
    ELSE [error |-> NoError, places |-> RepoAdd(places, NewPlace(Without(data, "amenities")))]

\* update_place without the owner lookup
FacadeUpdatePlace_NoOwnerCheck(place_id, data) ==
    IF place_id \notin Ids(places)
    THEN [error |-> NotFound, places |-> places]
    ELSE LET r == RepoUpdate("place", places, RepoGet(places, place_id),
                             Without(data, "amenities"))
         IN [error |-> r.error, places |-> r.repo]

\* HBnBFacade.update_place
FacadeUpdatePlace(place_id, data) ==
    IF place_id \notin Ids(places)
    THEN [error |-> NotFound, places |-> places]
    ELSE IF Has(data, "owner_id") /\ Get(data, "owner_id") \notin Ids(users)
    THEN [error |-> OwnerNotFound, places |-> places]
    ELSE LET r == RepoUpdate("place", places, RepoGet(places, place_id),
                             Without(data, "amenities"))
         IN [error |-> r.error, places |-> r.repo]

\* HBnBFacade.delete_place
FacadeDeletePlace(place_id) ==
    IF place_id \notin Ids(places)
    THEN [deleted |-> FALSE, places |-> places]
    ELSE [deleted |-> TRUE, places |-> RepoDelete(places, place_id)]

InSeq(x, seq) == \E i \in DOMAIN seq : seq[i] = x

AmenityNotFound == "Amenity not found"

AlreadyAssociated == "Amenity already associated with this place"

NotAssociated == "Amenity not associated with this place"

\* add_amenity_to_place appending without the membership test
FacadeAddAmenityToPlace_NoMembershipTest(place_id, amenity_id) ==
    IF place_id \notin Ids(places)
    THEN [error |-> "Place not found", places |-> places]
    ELSE IF amenity_id \notin Ids(amenities)
    THEN [error |-> AmenityNotFound, places |-> places]
    ELSE LET place == RepoGet(places, place_id) IN
         [error |-> NoError,
          places |-> RepoUpdate("place", places,
                                [place EXCEPT !.amenities = Append(@, amenity_id)],
                                <<>>).repo]

\* HBnBFacade.add_amenity_to_place
FacadeAddAmenityToPlace(place_id, amenity_id) ==
    IF place_id \notin Ids(places)
    THEN [error |-> "Place not found", places |-> places]
    ELSE IF amenity_id \notin Ids(amenities)
    THEN [error |-> AmenityNotFound, places |-> places]
    ELSE LET place == RepoGet(places, place_id) IN
         IF InSeq(amenity_id, place.amenities)
         THEN [error |-> AlreadyAssociated, places |-> places]
         ELSE [error |-> NoError,
               places |-> RepoUpdate("place", places,
                                     [place EXCEPT !.amenities = Append(@, amenity_id)],
                                     <<>>).repo]

\* list.remove: the list without the first occurrence of x
ListRemove(seq, x) ==
    LET i == CHOOSE k \in DOMAIN seq : seq[k] = x /\ \A j \in DOMAIN seq : seq[j] = x => k <= j
    IN [k \in 1..(Len(seq) - 1) |-> IF k < i THEN seq[k] ELSE seq[k + 1]]

\* HBnBFacade.remove_amenity_from_place
FacadeRemoveAmenityFromPlace(place_id, amenity_id) ==
    IF place_id \notin Ids(places)
    THEN [error |-> "Place not found", places |-> places]
    ELSE IF amenity_id \notin Ids(amenities)
    THEN [error |-> AmenityNotFound, places |-> places]
    ELSE LET place == RepoGet(places, place_id) IN
         IF ~InSeq(amenity_id, place.amenities)
         THEN [error |-> NotAssociated, places |-> places]
         ELSE [error |-> NoError,
               places |-> RepoUpdate("place", places,
                                     [place EXCEPT !.amenities = ListRemove(@, amenity_id)],
                                     <<>>).repo]

(***************************************************************************)
(* Amenities: app/models/amenity.py, HBnBFacade amenity methods.           *)
(***************************************************************************)
\* AmenityRepository.get_amenity_by_name
AmenityNamed(name) == \E i \in DOMAIN amenities : amenities[i].name = name

AmenityConflict == "Amenity with this name already exists"

\* HBnBFacade.create_amenity
FacadeCreateAmenity(data) ==
    IF AmenityNamed(Get(data, "name"))
    THEN [error |-> AmenityConflict, amenities |-> amenities]
    ELSE IF SetterError("amenity", "name", Get(data, "name")) # NoError
    THEN [error |-> SetterError("amenity", "name", Get(data, "name")), amenities |-> amenities]
    ELSE [error |-> NoError,
          amenities |-> RepoAdd(amenities, [id |-> Id("amenity", nextId.amenity),
                                            name |-> Get(data, "name"),
                                            created_at |-> clock, updated_at |-> clock])]

\* update_amenity without the lookup of the new name
FacadeUpdateAmenity_NoNameCheck(amenity_id, data) ==
    IF amenity_id \notin Ids(amenities)
    THEN [error |-> NotFound, amenities |-> amenities]
    ELSE LET r == RepoUpdate("amenity", amenities, RepoGet(amenities, amenity_id), data)
         IN [error |-> r.error, amenities |-> r.repo]

\* HBnBFacade.update_amenity
FacadeUpdateAmenity(amenity_id, data) ==
    IF amenity_id \notin Ids(amenities)
    THEN [error |-> NotFound, amenities |-> amenities]
    ELSE IF Has(data, "name") /\ Get(data, "name") # RepoGet(amenities, amenity_id).name
            /\ AmenityNamed(Get(data, "name"))
    THEN [error |-> AmenityConflict, amenities |-> amenities]
    ELSE LET r == RepoUpdate("amenity", amenities, RepoGet(amenities, amenity_id), data)
         IN [error |-> r.error, amenities |-> r.repo]

(***************************************************************************)
(* Reviews: app/models/review.py, HBnBFacade review methods.  A review row *)
(* carries user_id and place_id, the attributes the facade, the review     *)
(* repository and the handlers read and write.                             *)
(***************************************************************************)
\* a constructor running the text setter only
ReviewInitError_TextOnly(data) == SetterError("review", "text", Get(data, "text"))

\* Review.__init__: the setters in the order text, rating
ReviewInitError(data) ==
    IF SetterError("review", "text", Get(data, "text")) # NoError
    THEN SetterError("review", "text", Get(data, "text"))
    ELSE SetterError("review", "rating", Get(data, "rating"))

NewReview(data) ==
    [id |-> Id("review", nextId.review),
     text |-> Get(data, "text"),
     rating |-> Get(data, "rating"),
     user_id |-> Get(data, "user_id"),
     place_id |-> Get(data, "place_id"),
     created_at |-> clock, updated_at |-> clock]

\* the lookup with its two filters exchanged
ReviewByUserAndPlace_Exchanged(user_id, place_id) ==
    \E i \in DOMAIN reviews : reviews[i].user_id = place_id /\ reviews[i].place_id = user_id

\* ReviewRepository.get_review_by_user_and_place
ReviewByUserAndPlace(user_id, place_id) ==
    \E i \in DOMAIN reviews : reviews[i].user_id = user_id /\ reviews[i].place_id = place_id

\* the lists holding each row of a set once
Orderings(S) ==
    {q \in [1..Cardinality(S) -> S] : \A x \in S : \E i \in DOMAIN q : q[i] = x}

\* ReviewRepository.get_reviews_by_place: filter_by(place_id=place_id).all(),
\* a query with no ORDER BY, whose rows come in the order the engine yields
ReviewsByPlace(place_id) == Orderings({r \in Rows(reviews) : r.place_id = place_id})

\* HBnBFacade.get_reviews_by_place: the error, or the lists it can return
FacadeGetReviewsByPlace(place_id) ==
    IF place_id \notin Ids(places)
    THEN [error |-> "Place not found", results |-> {}]
    ELSE [error |-> NoError, results |-> ReviewsByPlace(place_id)]

\* HBnBFacade.create_review for a dict holding text and rating
FacadeCreateReview(data) ==
    IF ~Has(data, "user_id") \/ Get(data, "user_id") \notin Ids(users)
    THEN [error |-> "User not found", reviews |-> reviews]
    ELSE IF ~Has(data, "place_id") \/ Get(data, "place_id") \notin Ids(places)
    THEN [error |-> "Place not found", reviews |-> reviews]
    ELSE IF ReviewInitError(data) # NoError
    THEN [error |-> ReviewInitError(data), reviews |-> reviews]
    ELSE [error |-> NoError, reviews |-> RepoAdd(reviews, NewReview(data))]

\* HBnBFacade.update_review
FacadeUpdateReview(review_id, data) ==
    IF review_id \notin Ids(reviews)
    THEN [error |-> NotFound, reviews |-> reviews]
    ELSE IF Has(data, "user_id") /\ Get(data, "user_id") \notin Ids(users)
    THEN [error |-> "User not found", reviews |-> reviews]
    ELSE IF Has(data, "place_id") /\ Get(data, "place_id") \notin Ids(places)
    THEN [error |-> "Place not found", reviews |-> reviews]
    ELSE LET r == RepoUpdate("review", reviews, RepoGet(reviews, review_id), data)
         IN [error |-> r.error, reviews |-> r.repo]

\* HBnBFacade.delete_review
FacadeDeleteReview(review_id) ==
    IF review_id \notin Ids(reviews)
    THEN [deleted |-> FALSE, reviews |-> reviews]
    ELSE [deleted |-> TRUE, reviews |-> RepoDelete(reviews, review_id)]

(***************************************************************************)
(* app/api/v1/places.py                                                    *)
(***************************************************************************)
\* PlaceList.post
PlaceListPostResult(tok, data) ==
    IF tok \notin tokens
    THEN [status |-> 401, error |-> MissingToken, places |-> places]
    ELSE LET r == FacadeCreatePlace(SetKey(data, "owner_id", tok.sub))
         IN [status |-> IF r.error = NoError THEN 201 ELSE 400,
             error |-> r.error, places |-> r.places]

PlaceListPost(tok, data) ==
    LET r == PlaceListPostResult(tok, data) IN
    /\ r.status = 201 => nextId.place <= MaxPlaces
    /\ places' = r.places
    /\ nextId' = IF r.status = 201 THEN [nextId EXCEPT !.place = @ + 1] ELSE nextId
    /\ UNCHANGED <<users, reviews, amenities, tokens, calls, clock>>

PlaceNotFound == "Place not found"

\* the ownership check letting every non-admin caller through
PlaceForbidden_AdminOnly(tok, place) == tok.is_admin /\ place.owner_id # tok.sub

\* the ownership check of PlaceResource.put and PlaceResource.delete
PlaceForbidden(tok, place) == ~tok.is_admin /\ place.owner_id # tok.sub

\* the payload handed on as received, owner_id included
PlacePutData_AsReceived(place, data) == data

\* the stored owner filled in only when the payload names none
PlacePutData_OwnerDefault(place, data) ==
    IF Has(data, "owner_id") THEN data ELSE SetKey(data, "owner_id", place.owner_id)

\* the payload PlaceResource.put hands to the facade
PlacePutData(place, data) == SetKey(data, "owner_id", place.owner_id)

\* PlaceResource.put
PlacePutResult(tok, place_id, data) ==
    IF tok \notin tokens
    THEN [status |-> 401, error |-> MissingToken, places |-> places]
    ELSE IF place_id \notin Ids(places)
    THEN [status |-> 404, error |-> PlaceNotFound, places |-> places]
    ELSE IF PlaceForbidden(tok, RepoGet(places, place_id))
    THEN [status |-> 403, error |-> Unauthorized, places |-> places]
    ELSE LET r == FacadeUpdatePlace(place_id, PlacePutData(RepoGet(places, place_id), data))
         IN [status |-> IF r.error = NoError THEN 200 ELSE 400,
             error |-> r.error, places |-> r.places]

PlacePut(tok, place_id, data) ==
    LET r == PlacePutResult(tok, place_id, data) IN
    /\ places' = r.places
    /\ UNCHANGED <<users, reviews, amenities, tokens, nextId, calls, clock>>

\* PlaceResource.delete
PlaceDeleteResult(tok, place_id) ==
    IF tok \notin tokens
    THEN [status |-> 401, error |-> MissingToken, places |-> places]
    ELSE IF place_id \notin Ids(places)
    THEN [status |-> 404, error |-> PlaceNotFound, places |-> places]
    ELSE IF PlaceForbidden(tok, RepoGet(places, place_id))
    THEN [status |-> 403, error |-> Unauthorized, places |-> places]
    ELSE [status |-> 200, error |-> NoError, places |-> FacadeDeletePlace(place_id).places]

PlaceDelete(tok, place_id) ==
    LET r == PlaceDeleteResult(tok, place_id) IN
    /\ places' = r.places
    /\ UNCHANGED <<users, reviews, amenities, tokens, nextId, calls, clock>>

\* PlaceAmenityResource.post
PlaceAmenityPostResult(tok, place_id, amenity_id) ==
    IF tok \notin tokens
    THEN [status |-> 401, error |-> MissingToken, places |-> places]
    ELSE LET r == FacadeAddAmenityToPlace(place_id, amenity_id)
         IN [status |-> IF r.error = NoError THEN 200 ELSE 400,
             error |-> r.error, places |-> r.places]

PlaceAmenityPost(tok, place_id, amenity_id) ==
    LET r == PlaceAmenityPostResult(tok, place_id, amenity_id) IN
    /\ places' = r.places
    /\ UNCHANGED <<users, reviews, amenities, tokens, nextId, calls, clock>>

\* PlaceAmenityResource.delete
PlaceAmenityDeleteResult(tok, place_id, amenity_id) ==
    IF tok \notin tokens
    THEN [status |-> 401, error |-> MissingToken, places |-> places]
    ELSE LET r == FacadeRemoveAmenityFromPlace(place_id, amenity_id)
         IN [status |-> IF r.error = NoError THEN 200 ELSE 400,
             error |-> r.error, places |-> r.places]

PlaceAmenityDelete(tok, place_id, amenity_id) ==
    LET r == PlaceAmenityDeleteResult(tok, place_id, amenity_id) IN
    /\ places' = r.places
    /\ UNCHANGED <<users, reviews, amenities, tokens, nextId, calls, clock>>

(***************************************************************************)
(* app/api/v1/amenities.py                                                 *)
(***************************************************************************)
AdminRequired == "Admin privileges required"

\* the admin check admitting every authenticated caller
AmenityForbidden_Never(tok) == tok \notin tokens

\* the admin check of AmenityList.post and AmenityResource.put
AmenityForbidden(tok) == ~tok.is_admin

\* AmenityList.post
AmenityListPostResult(tok, data) ==
    IF tok \notin tokens
    THEN [status |-> 401, error |-> MissingToken, amenities |-> amenities]
    ELSE IF AmenityForbidden(tok)
    THEN [status |-> 403, error |-> AdminRequired, amenities |-> amenities]
    ELSE LET r == FacadeCreateAmenity(data)
         IN [status |-> IF r.error = NoError THEN 201 ELSE 400,
             error |-> r.error, amenities |-> r.amenities]

AmenityListPost(tok, data) ==
    LET r == AmenityListPostResult(tok, data) IN
    /\ r.status = 201 => nextId.amenity <= MaxAmenities
    /\ amenities' = r.amenities
    /\ nextId' = IF r.status = 201 THEN [nextId EXCEPT !.amenity = @ + 1] ELSE nextId
    /\ UNCHANGED <<users, places, reviews, tokens, calls, clock>>

\* AmenityResource.put
AmenityPutResult(tok, amenity_id, data) ==
    IF tok \notin tokens
    THEN [status |-> 401, error |-> MissingToken, amenities |-> amenities]
    ELSE IF AmenityForbidden(tok)
    THEN [status |-> 403, error |-> AdminRequired, amenities |-> amenities]
    ELSE LET r == FacadeUpdateAmenity(amenity_id, data)
         IN [status |-> IF r.error = NoError THEN 200
                        ELSE IF r.error = NotFound THEN 404 ELSE 400,
             error |-> r.error, amenities |-> r.amenities]

AmenityPut(tok, amenity_id, data) ==
    LET r == AmenityPutResult(tok, amenity_id, data) IN
    /\ amenities' = r.amenities
    /\ UNCHANGED <<users, places, reviews, tokens, nextId, calls, clock>>

(***************************************************************************)
(* app/api/v1/reviews.py                                                   *)
(***************************************************************************)
OwnPlace == "You cannot review your own place"

AlreadyReviewed == "You have already reviewed this place"

\* the own-place test letting admin callers through
IsOwnPlace_AdminExempt(tok, place) == ~tok.is_admin /\ place.owner_id = tok.sub

\* the own-place test of ReviewList.post
IsOwnPlace(tok, place) == place.owner_id = tok.sub

\* ReviewList.post for a payload holding text, rating and place_id
ReviewListPostResult(tok, data) ==
    IF tok \notin tokens
    THEN [status |-> 401, error |-> MissingToken, reviews |-> reviews]
    ELSE IF Get(data, "place_id") \notin Ids(places)
    THEN [status |-> 404, error |-> PlaceNotFound, reviews |-> reviews]
    ELSE IF IsOwnPlace(tok, RepoGet(places, Get(data, "place_id")))
    THEN [status |-> 400, error |-> OwnPlace, reviews |-> reviews]
    ELSE IF ReviewByUserAndPlace(tok.sub, Get(data, "place_id"))
    THEN [status |-> 400, error |-> AlreadyReviewed, reviews |-> reviews]
    ELSE LET r == FacadeCreateReview(SetKey(data, "user_id", tok.sub))
         IN [status |-> IF r.error = NoError THEN 201 ELSE 400,
             error |-> r.error, reviews |-> r.reviews]

ReviewListPost(tok, data) ==
    LET r == ReviewListPostResult(tok, data) IN
    /\ r.status = 201 => nextId.review <= MaxReviews
    /\ reviews' = r.reviews
    /\ nextId' = IF r.status = 201 THEN [nextId EXCEPT !.review = @ + 1] ELSE nextId
    /\ UNCHANGED <<users, places, amenities, tokens, calls, clock>>

ReviewNotFound == "Review not found"

\* the authorship check of ReviewResource.put and ReviewResource.delete
ReviewForbidden(tok, review) == ~tok.is_admin /\ review.user_id # tok.sub

\* the payload handed on as received, user_id and place_id included
ReviewPutData_AsReceived(review, data) == data

\* the payload with only user_id set back to the stored one
ReviewPutData_UserOnly(review, data) == SetKey(data, "user_id", review.user_id)

\* the payload ReviewResource.put hands to the facade
ReviewPutData(review, data) ==
    SetKey(SetKey(data, "user_id", review.user_id), "place_id", review.place_id)

\* ReviewResource.put for a payload holding text, rating and place_id
ReviewPutResult(tok, review_id, data) ==
    IF tok \notin tokens
    THEN [status |-> 401, error |-> MissingToken, reviews |-> reviews]
    ELSE IF review_id \notin Ids(reviews)
    THEN [status |-> 404, error |-> ReviewNotFound, reviews |-> reviews]
    ELSE IF ReviewForbidden(tok, RepoGet(reviews, review_id))
    THEN [status |-> 403, error |-> Unauthorized, reviews |-> reviews]
    ELSE LET r == FacadeUpdateReview(review_id, ReviewPutData(RepoGet(reviews, review_id), data))
         IN [status |-> IF r.error = NoError THEN 200 ELSE 400,
             error |-> r.error, reviews |-> r.reviews]

ReviewPut(tok, review_id, data) ==
    LET r == ReviewPutResult(tok, review_id, data) IN
    /\ reviews' = r.reviews
    /\ UNCHANGED <<users, places, amenities, tokens, nextId, calls, clock>>

\* PlaceReviewList.get
PlaceReviewListGetResult(place_id) ==
    LET r == FacadeGetReviewsByPlace(place_id)
    IN [status |-> IF r.error = NoError THEN 200 ELSE 404, error |-> r.error,
        results |-> r.results]

\* ReviewResource.delete
ReviewDeleteResult(tok, review_id) ==
    IF tok \notin tokens
    THEN [status |-> 401, error |-> MissingToken, reviews |-> reviews]
    ELSE IF review_id \notin Ids(reviews)
    THEN [status |-> 404, error |-> ReviewNotFound, reviews |-> reviews]
    ELSE IF ReviewForbidden(tok, RepoGet(reviews, review_id))
    THEN [status |-> 403, error |-> Unauthorized, reviews |-> reviews]
    ELSE [status |-> 200, error |-> NoError, reviews |-> FacadeDeleteReview(review_id).reviews]

ReviewDelete(tok, review_id) ==
    LET r == ReviewDeleteResult(tok, review_id) IN
    /\ reviews' = r.reviews
    /\ UNCHANGED <<users, places, amenities, tokens, nextId, calls, clock>>

\* datetime.now() moving on
Tick ==
    /\ clock < MaxClock
    /\ clock' = clock + 1
    /\ UNCHANGED <<users, places, reviews, amenities, tokens, nextId, calls>>

\* no create_user call in progress
NoCalls == [p \in 1..MaxCalls |-> [pc |-> "idle"]]

(***************************************************************************)
(* The initial state: empty tables, no token issued.                       *)
(***************************************************************************)
Init ==
    /\ users = <<>>
    /\ places = <<>>
    /\ reviews = <<>>
    /\ amenities = <<>>
    /\ tokens = {}
    /\ nextId = [user |-> 1, place |-> 1, review |-> 1, amenity |-> 1]
    /\ calls = NoCalls
    /\ clock = 0

(***************************************************************************)
(* SpecUsers: the user operations alone.                                   *)
(***************************************************************************)
UserEmails == {"a@x.io", "b@x.io", AdminEmail}

UserCreateData(first_name, email) ==
    <<KV("first_name", first_name), KV("last_name", "Lee"), KV("email", email),
      KV("password", "pw1")>>

UserCreateInputs ==
    {UserCreateData(fn, e) : fn \in {"Al", ""}, e \in {"a@x.io", "b@x.io", "nope"}}

UserPutInputs ==
    {<<KV("first_name", fn)>> : fn \in {"Bo", ""}}
    \cup {<<KV("email", e)>> : e \in {"a@x.io", "b@x.io"}}
    \cup {<<KV("password", "pw2")>>, <<KV("is_admin", TRUE)>>}

UserIdInputs == {Id("user", n) : n \in 1..(MaxUsers + 1)}

Actors == tokens \cup {Anonymous}

LoginInputs == {<<"a@x.io", "pw1">>, <<"b@x.io", "pw1">>,
                <<AdminEmail, "admin123">>, <<AdminEmail, "pw1">>}

NextUsers ==
    \/ \E d \in UserCreateInputs : UserListPost(d)
    \/ \E tok \in Actors, id \in UserIdInputs, d \in UserPutInputs : UserPut(tok, id, d)
    \/ \E c \in LoginInputs : Login(c[1], c[2])
    \/ InitDefaultAdmin

SpecUsers == Init /\ [][NextUsers]_vars

\* every update dict the properties below quantify over
UserPayloads ==
    UserPutInputs
    \cup {<<>>, <<KV("last_name", "Roy")>>, <<KV("first_name", "Bo"), KV("last_name", "Roy")>>,
          <<KV("is_admin", FALSE)>>, <<KV("first_name", "Bo"), KV("email", "b@x.io")>>,
          <<KV("first_name", "Bo"), KV("is_admin", TRUE)>>,
          <<KV("first_name", "Bo"), KV("password", "pw2")>>, <<KV("email", "nope")>>}

\* C1: no two stored users share an email address, after every create_user
\* and every update_user, the email changes issued by an admin included.
C1_EmailUnique ==
    \A i, j \in DOMAIN users : users[i].email = users[j].email => i = j

\* two users are stored and the seeded admin's address was changed by an update
C1_Witness ==
    /\ Len(users) = 2
    /\ \E i, j \in DOMAIN users :
          /\ users[i].last_name = "User" /\ users[i].email = "b@x.io"
          /\ users[j].email = "a@x.io"

\* C2: create_user with an email that a stored user already has fails with
\* the conflict error, before any field validation, and leaves the users
\* as they were.
C2_DuplicateEmailRejected ==
    \A d \in UserCreateInputs \cup {AdminData} :
        (\E u \in Rows(users) : u.email = Get(d, "email")) =>
            /\ FacadeCreateUser(d).error = EmailConflict
            /\ FacadeCreateUser(d).users = users
            /\ UserListPostResult(d).status = 400
            /\ UserListPostResult(d).error = EmailConflict
            /\ UserListPostResult(d).users = users

\* two users are stored and a create_user with the address of the second one
\* is answered with the conflict
C2_Witness ==
    /\ Len(users) = 2
    /\ \E d \in UserCreateInputs :
          /\ Get(d, "email") = users[2].email
          /\ UserListPostResult(d).error = EmailConflict

\* C9: update_user by a non-admin on another id is answered with the
\* authorization error and changes no user; the same caller updating the
\* own first_name succeeds and keeps the own email.
C9_UserUpdateAuthorization ==
    \A tok \in tokens :
        ~tok.is_admin =>
            /\ \A u \in UserIdInputs, d \in UserPayloads :
                  u # tok.sub =>
                      /\ UserPutResult(tok, u, d).status = 403
                      /\ UserPutResult(tok, u, d).error = Unauthorized
                      /\ UserPutResult(tok, u, d).users = users
            /\ tok.sub \in Ids(users) =>
                  LET r == UserPutResult(tok, tok.sub, <<KV("first_name", "Bo")>>) IN
                  /\ r.status = 200
                  /\ RepoGet(r.users, tok.sub).first_name = "Bo"
                  /\ RepoGet(r.users, tok.sub).email = RepoGet(users, tok.sub).email

\* a non-admin caller has updated the own first_name while another user is stored
C9_Witness ==
    \E tok \in tokens :
        /\ ~tok.is_admin
        /\ RepoGet(users, tok.sub).first_name = "Bo"
        /\ RepoGet(users, tok.sub).is_admin = FALSE
        /\ \E u \in Ids(users) : u # tok.sub /\ UserPutResult(tok, u, <<KV("first_name", "Bo")>>).status = 403

\* C10: a successful update_user by a non-admin on the own id leaves email,
\* password digest and is_admin as they were, whatever the payload.
C10_SelfUpdateKeepsCredentials ==
    \A tok \in tokens, d \in UserPayloads :
        (~tok.is_admin /\ tok.sub \in Ids(users)
         /\ UserPutResult(tok, tok.sub, d).status = 200) =>
            LET old == RepoGet(users, tok.sub)
                new == RepoGet(UserPutResult(tok, tok.sub, d).users, tok.sub)
            IN /\ new.email = old.email
               /\ new.password = old.password
               /\ new.is_admin = old.is_admin

\* C11: update_user by a non-admin with an email key or a password key in the
\* payload is rejected and changes no user; on the caller's own id the
\* rejection is the validation error of the handler (on another id the
\* permission check has already answered).
C11_IdentityKeysRejected ==
    \A tok \in tokens, d \in UserPayloads :
        (~tok.is_admin /\ (Has(d, "email") \/ Has(d, "password"))) =>
            /\ UserPutResult(tok, tok.sub, d).status = 400
            /\ UserPutResult(tok, tok.sub, d).error = CannotModify
            /\ \A u \in UserIdInputs :
                  /\ UserPutResult(tok, u, d).status \in {400, 403}
                  /\ UserPutResult(tok, u, d).users = users

\* a non-admin caller, whose first_name an update has changed, is refused a
\* password change and an email change on the own id
C11_Witness ==
    \E tok \in tokens :
        /\ ~tok.is_admin
        /\ tok.sub \in Ids(users)
        /\ RepoGet(users, tok.sub).first_name = "Bo"
        /\ UserPutResult(tok, tok.sub, <<KV("password", "pw2")>>).error = CannotModify
        /\ UserPutResult(tok, tok.sub, <<KV("first_name", "Bo"), KV("email", "b@x.io")>>).error = CannotModify

\* C21: update_user on a target id that resolves to no stored user answers
\* not found (404) for every logged-in actor and payload, the non-admin actor
\* whose id differs from the target included.
C21_MissingUserNotFound ==
    \A tok \in tokens, u \in UserIdInputs, d \in UserPayloads :
        u \notin Ids(users) => UserPutResult(tok, u, d).status = 404

(***************************************************************************)
(* Spec: the handlers of places, amenities and reviews, from the state in  *)
(* which the seeded admin and one registered user are logged in.           *)
(***************************************************************************)
SpecUserInputs == {UserCreateData("Al", e) : e \in {"a@x.io", "b@x.io"}}

RegisteredUsers ==
    <<[id |-> Id("user", 1), first_name |-> "Admin", last_name |-> "User",
       email |-> AdminEmail, is_admin |-> TRUE, password |-> HashPassword("admin123"),
       created_at |-> 0, updated_at |-> 0],
      [id |-> Id("user", 2), first_name |-> "Al", last_name |-> "Lee",
       email |-> "a@x.io", is_admin |-> FALSE, password |-> HashPassword("pw1"),
       created_at |-> 0, updated_at |-> 0]>>

RegisteredTokens ==
    {[sub |-> Id("user", 1), is_admin |-> TRUE], [sub |-> Id("user", 2), is_admin |-> FALSE]}

InitRegistered ==
    /\ users = RegisteredUsers
    /\ places = <<>>
    /\ reviews = <<>>
    /\ amenities = <<>>
    /\ tokens = RegisteredTokens
    /\ nextId = [user |-> 3, place |-> 1, review |-> 1, amenity |-> 1]
    /\ calls = NoCalls
    /\ clock = 0

PlaceIdInputs == {Id("place", n) : n \in 1..MaxPlaces}

ReviewIdInputs == {Id("review", n) : n \in 1..MaxReviews}

AmenityIdInputs == {Id("amenity", n) : n \in 1..MaxAmenities}

PlaceCreateData(title, price) ==
    <<KV("title", title), KV("description", ""), KV("price", price),
      KV("latitude", 34), KV("longitude", -118), KV("amenities", <<>>)>>

PlaceCreateInputs == {PlaceCreateData("Loft", 250), PlaceCreateData("Loft", 0)}

PlacePutInputs ==
    {<<KV("title", "Flat")>>, <<KV("title", "")>>}
    \cup {<<KV("owner_id", u)>> : u \in {Id("user", 1), Id("user", MaxUsers + 1)}}

ReviewData(text, rating, place_id) ==
    <<KV("text", text), KV("rating", rating), KV("place_id", place_id)>>

ReviewCreateInputs ==
    {ReviewData("Nice", 5, p) : p \in PlaceIdInputs}
    \cup {ReviewData("Nice", 6, Id("place", 1))}

ReviewPutInputs ==
    {ReviewData("Nice", 1, p) : p \in PlaceIdInputs}
    \cup {ReviewData("Nice", 0, Id("place", 1))}
    \cup {Append(ReviewData("Nice", 1, Id("place", 1)), KV("user_id", u)) :
             u \in {Id("user", 1), Id("user", 2)}}

AmenityCreateInputs == {<<KV("name", "Wifi")>>, <<KV("name", "wifi")>>, <<KV("name", "")>>}

Next ==
    \/ \E tok \in Actors, d \in PlaceCreateInputs : PlaceListPost(tok, d)
    \/ \E tok \in Actors, p \in PlaceIdInputs, d \in PlacePutInputs : PlacePut(tok, p, d)
    \/ \E tok \in Actors, p \in PlaceIdInputs : PlaceDelete(tok, p)
    \/ \E tok \in Actors, d \in ReviewCreateInputs : ReviewListPost(tok, d)
    \/ \E tok \in Actors, r \in ReviewIdInputs, d \in ReviewPutInputs : ReviewPut(tok, r, d)
    \/ \E tok \in Actors, r \in ReviewIdInputs : ReviewDelete(tok, r)

Spec == InitRegistered /\ [][Next]_vars

\* every update dict the properties below quantify over
PlacePayloads ==
    PlacePutInputs
    \cup {<<>>, <<KV("price", 10)>>, <<KV("title", "Flat"), KV("owner_id", Id("user", 2))>>}

ReviewPayloads ==
    ReviewPutInputs \cup {ReviewData("Bad", 3, p) : p \in PlaceIdInputs}
    \cup {ReviewData("", 3, Id("place", 1))}

\* C3: at most one review is stored per (user, place) pair, after every
\* create_review, update_review and delete_review.
C3_OneReviewPerUserAndPlace ==
    \A i, j \in DOMAIN reviews :
        (reviews[i].user_id = reviews[j].user_id /\ reviews[i].place_id = reviews[j].place_id)
            => i = j

\* one user has a review of each of two places, one of the two updated
C3_Witness ==
    \E i, j \in DOMAIN reviews :
        /\ reviews[i].user_id = reviews[j].user_id
        /\ reviews[i].place_id # reviews[j].place_id
        /\ reviews[i].rating = 1
        /\ reviews[j].rating = 5

\* C4: no stored review has the owner of its place as its user, after every
\* create_review, update_review and update_place.
C4_NoReviewOfOwnPlace ==
    \A r \in Rows(reviews) :
        r.place_id \in Ids(places) => RepoGet(places, r.place_id).owner_id # r.user_id

\* a reviewed place was updated and its review too
C4_Witness ==
    \E r \in Rows(reviews) :
        /\ r.place_id \in Ids(places)
        /\ r.rating = 1
        /\ RepoGet(places, r.place_id).title = "Flat"

\* C5: the place_id and the user_id of every stored review resolve to a
\* stored place and a stored user, also after delete_place.
C5_ReviewsResolve ==
    \A r \in Rows(reviews) : r.place_id \in Ids(places) /\ r.user_id \in Ids(users)

\* C8: update and delete of a place by a non-admin who is not its owner, and
\* of a review by a non-admin who is not its author, are answered with the
\* authorization error and leave the tables as they were.
C8_OwnerOrAdminOnly ==
    \A tok \in tokens :
        ~tok.is_admin =>
            /\ \A pl \in Rows(places) :
                  pl.owner_id # tok.sub =>
                      /\ \A d \in PlacePayloads :
                            /\ PlacePutResult(tok, pl.id, d).status = 403
                            /\ PlacePutResult(tok, pl.id, d).error = Unauthorized
                            /\ PlacePutResult(tok, pl.id, d).places = places
                      /\ PlaceDeleteResult(tok, pl.id).status = 403
                      /\ PlaceDeleteResult(tok, pl.id).error = Unauthorized
                      /\ PlaceDeleteResult(tok, pl.id).places = places
            /\ \A rv \in Rows(reviews) :
                  rv.user_id # tok.sub =>
                      /\ \A d \in ReviewPayloads :
                            /\ ReviewPutResult(tok, rv.id, d).status = 403
                            /\ ReviewPutResult(tok, rv.id, d).error = Unauthorized
                            /\ ReviewPutResult(tok, rv.id, d).reviews = reviews
                      /\ ReviewDeleteResult(tok, rv.id).status = 403
                      /\ ReviewDeleteResult(tok, rv.id).error = Unauthorized
                      /\ ReviewDeleteResult(tok, rv.id).reviews = reviews

\* a non-admin caller faces a place of another owner and a review of another
\* author, and both deletes are refused
C8_Witness ==
    \E tok \in tokens :
        /\ ~tok.is_admin
        /\ \E pl \in Rows(places) :
              pl.owner_id # tok.sub /\ PlaceDeleteResult(tok, pl.id).status = 403
        /\ \E rv \in Rows(reviews) :
              rv.user_id # tok.sub /\ ReviewDeleteResult(tok, rv.id).status = 403

\* C12: update_place never changes the owner_id of a place: in every step,
\* whoever the caller and whatever the payload (one naming another owner
\* included), a place that stays stored keeps the owner_id it was created with.
C12_OwnerNeverChanges ==
    [][\A p \in PlaceIdInputs :
          (p \in Ids(places) /\ p \in Ids(places')) =>
              RepoGet(places', p).owner_id = RepoGet(places, p).owner_id]_vars

\* an update naming another stored user as owner is accepted for a place
\* that an earlier update has already changed
C12_Witness ==
    \E tok \in tokens, pl \in Rows(places), u \in Ids(users) :
        /\ u # pl.owner_id
        /\ pl.title = "Flat"
        /\ PlacePutResult(tok, pl.id, <<KV("title", "Flat"), KV("owner_id", u)>>).status = 200

\* every creation payload the properties below quantify over
ReviewCreatePayloads ==
    ReviewCreateInputs
    \cup {ReviewData("", 5, p) : p \in PlaceIdInputs}
    \cup {ReviewData("Nice", 0, p) : p \in PlaceIdInputs}

\* C17: when a user has a stored review of a stored place, a further
\* create_review by that user for that place fails with the conflict error,
\* and the place has as many reviews after the attempt as before.
C17_SecondReviewRejected ==
    \A tok \in tokens, d \in ReviewCreatePayloads :
        (/\ \E pl \in Rows(places) : pl.id = Get(d, "place_id")
         /\ \E rv \in Rows(reviews) : rv.user_id = tok.sub /\ rv.place_id = Get(d, "place_id")) =>
            LET r == ReviewListPostResult(tok, d) IN
            /\ r.status = 400
            /\ r.error = AlreadyReviewed
            /\ r.reviews = reviews
            /\ Cardinality({i \in DOMAIN r.reviews : r.reviews[i].place_id = Get(d, "place_id")})
                   = Cardinality({i \in DOMAIN reviews : reviews[i].place_id = Get(d, "place_id")})

\* a user has reviews of two stored places, and is refused a further one of
\* the place reviewed last
C17_Witness ==
    \E i, j \in DOMAIN reviews :
        /\ i < j
        /\ reviews[i].user_id = reviews[j].user_id
        /\ reviews[i].place_id \in Ids(places)
        /\ reviews[j].place_id \in Ids(places)
        /\ \E tok \in tokens :
              /\ tok.sub = reviews[j].user_id
              /\ ReviewListPostResult(tok, ReviewData("Nice", 5, reviews[j].place_id)).error
                     = AlreadyReviewed

\* C18: create_review by the owner of the target place fails with the
\* own-place error whatever text and rating are, valid or not, and stores no
\* review.
C18_OwnPlaceRejectedFirst ==
    \A tok \in tokens, d \in ReviewCreatePayloads :
        (\E pl \in Rows(places) : pl.id = Get(d, "place_id") /\ pl.owner_id = tok.sub) =>
            /\ ReviewListPostResult(tok, d).status = 400
            /\ ReviewListPostResult(tok, d).error = OwnPlace
            /\ ReviewListPostResult(tok, d).reviews = reviews

\* an owner is refused a review with an invalid rating of the own place,
\* which another user has reviewed
C18_Witness ==
    \E tok \in tokens, pl \in Rows(places) :
        /\ pl.owner_id = tok.sub
        /\ \E rv \in Rows(reviews) : rv.place_id = pl.id
        /\ ReviewListPostResult(tok, ReviewData("Nice", 0, pl.id)).error = OwnPlace

\* C22: update_review never changes the place_id or the user_id of a review:
\* in every step, whoever the caller and whatever the payload (one naming
\* another place or another user included), a review that stays stored keeps
\* the place_id and user_id it was created with.
C22_ReviewKeysNeverChange ==
    [][\A r \in ReviewIdInputs :
          (r \in Ids(reviews) /\ r \in Ids(reviews')) =>
              /\ RepoGet(reviews', r).place_id = RepoGet(reviews, r).place_id
              /\ RepoGet(reviews', r).user_id = RepoGet(reviews, r).user_id]_vars

\* a review an earlier update has changed, whose author is answered 200 for
\* an update naming another stored place and for one naming another user
C22_Witness ==
    \E tok \in tokens, rv \in Rows(reviews), p \in Ids(places), u \in Ids(users) :
        /\ rv.rating = 1
        /\ p # rv.place_id
        /\ u # rv.user_id
        /\ ReviewPutResult(tok, rv.id, ReviewData("Nice", 1, p)).status = 200
        /\ ReviewPutResult(tok, rv.id,
               Append(ReviewData("Nice", 1, rv.place_id), KV("user_id", u))).status = 200

(***************************************************************************)
(* SpecCascade: places with their amenities and reviews, created and       *)
(* deleted.                                                                *)
(***************************************************************************)
NextCascade ==
    \/ \E tok \in Actors, d \in PlaceCreateInputs : PlaceListPost(tok, d)
    \/ \E tok \in Actors, p \in PlaceIdInputs : PlaceDelete(tok, p)
    \/ \E tok \in Actors, d \in AmenityCreateInputs : AmenityListPost(tok, d)
    \/ \E tok \in Actors, p \in PlaceIdInputs, a \in AmenityIdInputs : PlaceAmenityPost(tok, p, a)
    \/ \E tok \in Actors, d \in ReviewCreateInputs : ReviewListPost(tok, d)

SpecCascade == InitRegistered /\ [][NextCascade]_vars

\* C7: a delete_place that removes place p also removes every review of p
\* and nothing else: amenities, the other places and the reviews of the other
\* places all remain.
C7_DeleteRemovesPlaceAndItsReviews ==
    [][\A p \in PlaceIdInputs :
          (p \in Ids(places) /\ p \notin Ids(places')) =>
              /\ \A r \in Rows(reviews') : r.place_id # p
              /\ \A r \in Rows(reviews) : r.place_id # p => r \in Rows(reviews')
              /\ amenities' = amenities
              /\ \A q \in Rows(places) : q.id # p => q \in Rows(places')]_vars

(***************************************************************************)
(* SpecAmenities: amenities created and renamed, attached to and detached  *)
(* from two listed places.                                                 *)
(***************************************************************************)
RegisteredPlace(n, owner) ==
    [id |-> Id("place", n), title |-> "Loft", description |-> "", price |-> 250,
     latitude |-> 34, longitude |-> -118, owner_id |-> owner, amenities |-> <<>>,
     created_at |-> 0, updated_at |-> 0]

RegisteredPlaces ==
    <<RegisteredPlace(1, Id("user", 2)), RegisteredPlace(2, Id("user", 1))>>

InitListed ==
    /\ users = RegisteredUsers
    /\ places = RegisteredPlaces
    /\ reviews = <<>>
    /\ amenities = <<>>
    /\ tokens = RegisteredTokens
    /\ nextId = [user |-> 3, place |-> 3, review |-> 1, amenity |-> 1]
    /\ calls = NoCalls
    /\ clock = 0

AmenityPutInputs == {<<KV("name", "Wifi")>>, <<KV("name", "Pool")>>, <<KV("name", "")>>}

NextAmenities ==
    \/ \E tok \in Actors, d \in AmenityCreateInputs : AmenityListPost(tok, d)
    \/ \E tok \in Actors, a \in AmenityIdInputs, d \in AmenityPutInputs : AmenityPut(tok, a, d)
    \/ \E tok \in Actors, p \in PlaceIdInputs, a \in AmenityIdInputs : PlaceAmenityPost(tok, p, a)
    \/ \E tok \in Actors, p \in PlaceIdInputs, a \in AmenityIdInputs : PlaceAmenityDelete(tok, p, a)

SpecAmenities == InitListed /\ [][NextAmenities]_vars

\* C14: no two stored amenities have the same name, compared case-sensitively;
\* a create or a rename to a name another amenity holds fails with the
\* conflict error and changes nothing, and an update keeping the amenity's
\* own name succeeds.
C14_AmenityNameUnique ==
    /\ \A i, j \in DOMAIN amenities : amenities[i].name = amenities[j].name => i = j
    /\ \A tok \in tokens :
          tok.is_admin =>
              /\ \A d \in AmenityCreateInputs :
                    (\E a \in Rows(amenities) : a.name = Get(d, "name")) =>
                        /\ AmenityListPostResult(tok, d).status = 400
                        /\ AmenityListPostResult(tok, d).error = AmenityConflict
                        /\ AmenityListPostResult(tok, d).amenities = amenities
              /\ \A a \in Rows(amenities), d \in AmenityPutInputs \cup AmenityCreateInputs :
                    /\ (\E b \in Rows(amenities) : b.id # a.id /\ b.name = Get(d, "name")) =>
                          /\ AmenityPutResult(tok, a.id, d).status = 400
                          /\ AmenityPutResult(tok, a.id, d).error = AmenityConflict
                          /\ AmenityPutResult(tok, a.id, d).amenities = amenities
                    /\ Get(d, "name") = a.name =>
                          /\ AmenityPutResult(tok, a.id, d).status = 200
                          /\ RepoGet(AmenityPutResult(tok, a.id, d).amenities, a.id).name = a.name

\* two amenities are stored, one under a name that only a rename gives, the
\* other under a name differing from a taken one by case alone
C14_Witness ==
    \E i, j \in DOMAIN amenities :
        /\ amenities[i].name = "Pool"
        /\ amenities[j].name = "wifi"
        /\ \E tok \in tokens :
              AmenityPutResult(tok, amenities[i].id, <<KV("name", "wifi")>>).error = AmenityConflict

\* C15: create_amenity and update_amenity by a caller whose admin claim is
\* false are refused, and the amenities and their names are unchanged.
C15_AmenityAdminOnly ==
    \A tok \in tokens :
        ~tok.is_admin =>
            /\ \A d \in AmenityCreateInputs \cup AmenityPutInputs :
                  /\ AmenityListPostResult(tok, d).status = 403
                  /\ AmenityListPostResult(tok, d).error = AdminRequired
                  /\ AmenityListPostResult(tok, d).amenities = amenities
            /\ \A a \in AmenityIdInputs, d \in AmenityCreateInputs \cup AmenityPutInputs :
                  /\ AmenityPutResult(tok, a, d).status = 403
                  /\ AmenityPutResult(tok, a, d).error = AdminRequired
                  /\ AmenityPutResult(tok, a, d).amenities = amenities

\* an amenity is stored under a free name, and a caller without the admin
\* claim is refused its rename and a create
C15_Witness ==
    \E tok \in tokens, a \in Rows(amenities) :
        /\ ~tok.is_admin
        /\ a.name = "wifi"
        /\ AmenityPutResult(tok, a.id, <<KV("name", "Pool")>>).status = 403
        /\ AmenityListPostResult(tok, <<KV("name", "Wifi")>>).status = 403

\* C16: for a stored place and a stored amenity, add_amenity_to_place succeeds
\* exactly when the pair is not associated and otherwise fails with the
\* conflict error; remove_amenity_from_place succeeds exactly when the pair is
\* associated and otherwise fails with the conflict error; a failed call
\* leaves the places unchanged, and no place holds an amenity twice.
C16_AmenityAssociation ==
    /\ \A pl \in Rows(places) :
          \A i, j \in DOMAIN pl.amenities : pl.amenities[i] = pl.amenities[j] => i = j
    /\ \A tok \in tokens, pl \in Rows(places), a \in Ids(amenities) :
          LET add == PlaceAmenityPostResult(tok, pl.id, a)
              remove == PlaceAmenityDeleteResult(tok, pl.id, a)
          IN IF InSeq(a, pl.amenities)
             THEN /\ add.status = 400 /\ add.error = AlreadyAssociated /\ add.places = places
                  /\ remove.status = 200
                  /\ ~InSeq(a, RepoGet(remove.places, pl.id).amenities)
             ELSE /\ remove.status = 400 /\ remove.error = NotAssociated
                  /\ remove.places = places
                  /\ add.status = 200
                  /\ InSeq(a, RepoGet(add.places, pl.id).amenities)

\* one place holds two amenities and the other place holds none of them
C16_Witness ==
    \E p, q \in DOMAIN places :
        /\ Len(places[p].amenities) = 2
        /\ places[q].amenities = <<>>
        /\ \E tok \in tokens :
              PlaceAmenityPostResult(tok, places[p].id, places[p].amenities[1]).error
                  = AlreadyAssociated

(***************************************************************************)
(* SpecPlaceAmenities: places created and updated with an amenities list,  *)
(* by the registered users, while the admin creates amenities and          *)
(* amenities are attached to places.                                       *)
(***************************************************************************)
AmenityLists ==
    {<<>>, <<Id("amenity", 1)>>, <<Id("amenity", 2)>>, <<Id("amenity", 1), Id("amenity", 2)>>}

PlaceWithAmenitiesInputs ==
    {SetKey(PlaceCreateData("Loft", 250), "amenities", l) : l \in AmenityLists}

PlaceAmenitiesPutInputs ==
    {<<KV("amenities", l)>> : l \in AmenityLists}
    \cup {<<KV("title", "Flat"), KV("amenities", <<Id("amenity", 1)>>)>>}

NextPlaceAmenities ==
    \/ \E tok \in Actors, d \in {<<KV("name", "Wifi")>>, <<KV("name", "Pool")>>} :
          AmenityListPost(tok, d)
    \/ \E tok \in Actors, d \in PlaceWithAmenitiesInputs : PlaceListPost(tok, d)
    \/ \E tok \in Actors, p \in PlaceIdInputs, d \in PlaceAmenitiesPutInputs : PlacePut(tok, p, d)
    \/ \E tok \in Actors, p \in PlaceIdInputs, a \in AmenityIdInputs : PlaceAmenityPost(tok, p, a)

SpecPlaceAmenities == InitRegistered /\ [][NextPlaceAmenities]_vars

\* the set of the elements of a list
Range(list) == {list[i] : i \in DOMAIN list}

\* C23: create_place with an amenities list one id of which resolves to no
\* stored amenity fails (400) and stores no place; with a list all of whose
\* ids resolve it succeeds and the amenity set of the created place is
\* exactly the set of the ids in the list.
C23_CreatePlaceAttachesAmenities ==
    \A tok \in tokens, d \in PlaceWithAmenitiesInputs :
        LET r == PlaceListPostResult(tok, d)
            named == Range(Get(d, "amenities"))
        IN IF named \subseteq Ids(amenities)
           THEN /\ r.status = 201
                /\ Range(r.places[Len(r.places)].amenities) = named
           ELSE r.status = 400 /\ r.places = places

\* C24: update_place by the owner or an admin with an amenities key all of
\* whose ids resolve succeeds, and afterwards the amenity set of the place is
\* exactly the set of the ids in the payload, whatever it was before.
C24_UpdatePlaceReplacesAmenities ==
    \A tok \in tokens, p \in Ids(places), d \in PlaceAmenitiesPutInputs :
        LET r == PlacePutResult(tok, p, d)
            named == Range(Get(d, "amenities"))
        IN (~PlaceForbidden(tok, RepoGet(places, p)) /\ named \subseteq Ids(amenities)) =>
               /\ r.status = 200
               /\ Range(RepoGet(r.places, p).amenities) = named

(***************************************************************************)
(* SpecReviews: three registered users creating places and reviewing each  *)
(* other's places while the clock advances.                                *)
(***************************************************************************)
ThreeUsers ==
    Append(RegisteredUsers,
           [id |-> Id("user", 3), first_name |-> "Bo", last_name |-> "Roy",
            email |-> "b@x.io", is_admin |-> FALSE, password |-> HashPassword("pw2"),
            created_at |-> 0, updated_at |-> 0])

InitReviewers ==
    /\ users = ThreeUsers
    /\ places = <<>>
    /\ reviews = <<>>
    /\ amenities = <<>>
    /\ tokens = RegisteredTokens \cup {[sub |-> Id("user", 3), is_admin |-> FALSE]}
    /\ nextId = [user |-> 4, place |-> 1, review |-> 1, amenity |-> 1]
    /\ calls = NoCalls
    /\ clock = 0

NextReviews ==
    \/ Tick
    \/ \E tok \in Actors : PlaceListPost(tok, PlaceCreateData("Loft", 250))
    \/ \E tok \in Actors, p \in PlaceIdInputs : PlaceDelete(tok, p)
    \/ \E tok \in Actors, d \in ReviewCreateInputs : ReviewListPost(tok, d)
    \/ \E tok \in Actors, r \in ReviewIdInputs : ReviewDelete(tok, r)

SpecReviews == InitReviewers /\ [][NextReviews]_vars

\* the stored reviews of a place in the order of their creation
InCreationOrder(place_id) == SelectSeq(reviews, LAMBDA r : r.place_id = place_id)

\* C25: get_reviews_by_place(p) answers not found when p is not a stored
\* place; otherwise it returns exactly the stored reviews whose place_id is
\* p, each one from its creation on, in the order of their creation.
C25_ReviewsByPlaceInCreationOrder ==
    \A p \in PlaceIdInputs :
        LET r == PlaceReviewListGetResult(p)
        IN IF p \notin Ids(places)
           THEN r.status = 404
           ELSE /\ r.status = 200
                /\ r.results # {}
                /\ \A q \in r.results : q = InCreationOrder(p)

(***************************************************************************)
(* SpecRanges: places and reviews created and updated with values on and   *)
(* just beyond the limits of their ranges.                                 *)
(***************************************************************************)
PlaceRangeData(price, latitude, longitude) ==
    <<KV("title", "Loft"), KV("description", ""), KV("price", price),
      KV("latitude", latitude), KV("longitude", longitude), KV("amenities", <<>>)>>

PlaceRangeCreateInputs ==
    {PlaceRangeData(1, -90, 180), PlaceRangeData(0, -90, 180),
     PlaceRangeData(1, -91, 180), PlaceRangeData(1, -90, 181)}

PlaceRangePutInputs ==
    {<<KV("price", 0)>>, <<KV("price", -1)>>,
     <<KV("latitude", 90), KV("longitude", -180)>>,
     <<KV("latitude", 91)>>, <<KV("longitude", -181)>>}

Ratings == {0, 1, 5, 6}

ReviewRangeInputs == {ReviewData("Nice", n, p) : n \in Ratings, p \in PlaceIdInputs}

\* update payloads: the place_id of an update is replaced by the stored one
ReviewRangePutInputs == {ReviewData("Nice", n, Id("place", 1)) : n \in Ratings}

NextRanges ==
    \/ \E tok \in Actors, d \in PlaceRangeCreateInputs : PlaceListPost(tok, d)
    \/ \E tok \in Actors, p \in PlaceIdInputs, d \in PlaceRangePutInputs : PlacePut(tok, p, d)
    \/ \E tok \in Actors, d \in ReviewRangeInputs : ReviewListPost(tok, d)
    \/ \E tok \in Actors, r \in ReviewIdInputs, d \in ReviewRangePutInputs : ReviewPut(tok, r, d)

SpecRanges == InitRegistered /\ [][NextRanges]_vars

\* the caller may review the place: it is stored, another user's, and not
\* yet reviewed by the caller
MayReview(tok, place_id) ==
    /\ place_id \in Ids(places)
    /\ ~IsOwnPlace(tok, RepoGet(places, place_id))
    /\ ~ReviewByUserAndPlace(tok.sub, place_id)

LaterReading(amenity_id) ==
    amenity_id \in Ids(amenities) => RepoGet(amenities, amenity_id).updated_at < clock

AmenityNameInputs ==
    {<<KV("name", "Wifi")>>, <<KV("name", "Pool")>>, <<KV("name", "Gym")>>, <<KV("name", "")>>}

NextClock ==
    \/ Tick
    \/ \E tok \in Actors, d \in AmenityNameInputs : AmenityListPost(tok, d)
    \/ \E tok \in Actors, a \in AmenityIdInputs, d \in AmenityNameInputs :
          LaterReading(a) /\ AmenityPut(tok, a, d)

SpecClock == InitRegistered /\ [][NextClock]_vars

SeedCreateInputs == {UserCreateData("Al", e) : e \in {"a@x.io", AdminEmail}}

SeedPutInputs ==
    {<<KV("is_admin", FALSE)>>, <<KV("email", "b@x.io")>>, <<KV("email", AdminEmail)>>}

NextSeed ==
    \/ InitDefaultAdmin
    \/ \E d \in SeedCreateInputs : UserListPost(d)
    \/ \E c \in LoginInputs : Login(c[1], c[2])
    \/ \E tok \in Actors, id \in UserIdInputs, d \in SeedPutInputs : UserPut(tok, id, d)

SpecSeed == Init /\ [][NextSeed]_vars

\* the positions of the users holding the admin address in a user table
AdminRows(table) == {i \in DOMAIN table : table[i].email = AdminEmail}

\* C28: from every state, the seed step leaves exactly one user with the
\* admin address, and that user has is_admin true: a missing one is created,
\* a stored one without the flag is promoted and the other users stay as they
\* are; the step always ends, and running it again changes nothing.
C28_SeedIdempotent ==
    /\ [](LET after == InitDefaultAdminResult.users IN
          /\ Cardinality(AdminRows(after)) = 1
          /\ \A i \in AdminRows(after) : after[i].is_admin = TRUE
          /\ IF AdminRows(users) = {}
             THEN /\ InitDefaultAdminResult.created
                  /\ Len(after) = Len(users) + 1
                  /\ \A i \in DOMAIN users : after[i] = users[i]
             ELSE /\ ~InitDefaultAdminResult.created
                  /\ Len(after) = Len(users)
                  /\ \A i \in DOMAIN users :
                        after[i] = IF i \in AdminRows(users)
                                   THEN [users[i] EXCEPT !.is_admin = TRUE] ELSE users[i])
    /\ [][users' = InitDefaultAdminResult.users => InitDefaultAdminResult'.users = users']_vars

\* the admin address is held by a user who registered with it and has been
\* promoted by the seed step, next to a user who was demoted by an admin
C28_Witness ==
    \E i, j \in DOMAIN users :
        /\ users[i].email = AdminEmail /\ users[i].first_name = "Al" /\ users[i].is_admin
        /\ users[j].first_name = "Admin" /\ ~users[j].is_admin

(***************************************************************************)
(* SpecPublic: the operations open to callers without a token and to       *)
(* callers whose token carries no admin claim, from empty tables.          *)
(***************************************************************************)
PublicCreateInputs ==
    {UserCreateData("Al", e) : e \in {"a@x.io", "b@x.io"}}
    \cup {Append(UserCreateData("Al", e), KV("is_admin", TRUE)) : e \in {"a@x.io", "b@x.io"}}

PublicPutInputs ==
    {<<KV("first_name", "Bo")>>, <<KV("is_admin", TRUE)>>, <<KV("email", "b@x.io")>>}

NonAdminActors == {tok \in tokens : ~tok.is_admin} \cup {Anonymous}

NextPublic ==
    \/ \E d \in PublicCreateInputs : UserListPost(d)
    \/ \E c \in LoginInputs : Login(c[1], c[2])
    \/ \E tok \in NonAdminActors, id \in UserIdInputs, d \in PublicPutInputs : UserPut(tok, id, d)
    \/ \E tok \in NonAdminActors : PlaceListPost(tok, PlaceCreateData("Loft", 250))
    \/ \E tok \in NonAdminActors, p \in PlaceIdInputs : PlacePut(tok, p, <<KV("title", "Flat")>>)
    \/ \E tok \in NonAdminActors, d \in ReviewCreateInputs : ReviewListPost(tok, d)

SpecPublic == Init /\ [][NextPublic]_vars

\* C30: no sequence of registrations, logins, self updates and place and
\* review operations by callers without the admin claim stores a user with
\* is_admin true, whatever the payloads carry.
C30_NoAdminFromPublicPaths ==
    \A u \in Rows(users) : ~u.is_admin

(***************************************************************************)
(* SpecFacade: the facade driven directly, by any caller and with any      *)
(* dict.                                                                   *)
(***************************************************************************)
CreateUser(data) ==
    LET r == FacadeCreateUser(data) IN
    /\ r.error = NoError => nextId.user <= MaxUsers
    /\ users' = r.users
    /\ nextId' = IF r.error = NoError THEN [nextId EXCEPT !.user = @ + 1] ELSE nextId
    /\ UNCHANGED <<places, reviews, amenities, tokens, calls, clock>>

UpdateUser(user_id, data) ==
    /\ users' = FacadeUpdateUser(user_id, data).users
    /\ UNCHANGED <<places, reviews, amenities, tokens, nextId, calls, clock>>

CreatePlace(data) ==
    LET r == FacadeCreatePlace(data) IN
    /\ r.error = NoError => nextId.place <= MaxPlaces
    /\ places' = r.places
    /\ nextId' = IF r.error = NoError THEN [nextId EXCEPT !.place = @ + 1] ELSE nextId
    /\ UNCHANGED <<users, reviews, amenities, tokens, calls, clock>>

UpdatePlace(place_id, data) ==
    /\ places' = FacadeUpdatePlace(place_id, data).places
    /\ UNCHANGED <<users, reviews, amenities, tokens, nextId, calls, clock>>

DeletePlace(place_id) ==
    /\ places' = FacadeDeletePlace(place_id).places
    /\ UNCHANGED <<users, reviews, amenities, tokens, nextId, calls, clock>>

FacadePlaceCreateInputs ==
    PlaceCreateInputs
    \cup {Append(d, KV("owner_id", u)) : d \in PlaceCreateInputs, u \in UserIdInputs}

NextFacade ==
    \/ \E d \in SpecUserInputs : CreateUser(d)
    \/ \E u \in UserIdInputs, d \in UserPutInputs : UpdateUser(u, d)
    \/ \E d \in FacadePlaceCreateInputs : CreatePlace(d)
    \/ \E p \in PlaceIdInputs, d \in PlacePutInputs : UpdatePlace(p, d)
    \/ \E p \in PlaceIdInputs : DeletePlace(p)

SpecFacade == Init /\ [][NextFacade]_vars

\* C6: the owner_id of every stored place is the id of a stored user, after
\* every create_place and update_place.
C6_OwnerIsStoredUser ==
    \A pl \in Rows(places) : pl.owner_id \in Ids(users)

\* two users own one place each, one of the places updated
C6_Witness ==
    \E i, j \in DOMAIN places :
        /\ places[i].owner_id # places[j].owner_id
        /\ places[i].title = "Flat"
        /\ places[j].title = "Loft"

(***************************************************************************)
(* SpecConcurrent: create_user calls running at the same time.  A call is  *)
(* two steps, the email lookup and the rest of the method, and the steps   *)
(* of different calls interleave.                                          *)
(***************************************************************************)
IntegrityError == "IntegrityError"

\* the user table's add without a uniqueness constraint on email
UserRepoAdd_NoConstraint(repo, row) == [error |-> NoError, repo |-> RepoAdd(repo, row)]

\* the user table's add: the storage layer refuses a second row with the
\* same email
UserRepoAdd(repo, row) ==
    IF \E r \in Rows(repo) : r.email = row.email
    THEN [error |-> IntegrityError, repo |-> repo]
    ELSE [error |-> NoError, repo |-> RepoAdd(repo, row)]

\* create_user up to the lookup of the email
CreateUserCheck(p, data) ==
    /\ calls[p].pc = "idle"
    /\ calls' = [calls EXCEPT ![p] =
                    IF EmailRegistered(Get(data, "email"))
                    THEN [pc |-> "failed", data |-> data, error |-> EmailConflict]
                    ELSE [pc |-> "checked", data |-> data, error |-> NoError]]
    /\ UNCHANGED <<users, places, reviews, amenities, tokens, nextId, clock>>

\* create_user from the construction of the User to the add
CreateUserAdd(p) ==
    /\ calls[p].pc = "checked"
    /\ LET data == calls[p].data
           r == IF UserInitError(data) # NoError
                THEN [error |-> UserInitError(data), repo |-> users]
                ELSE UserRepoAdd(users, NewUser(data))
       IN /\ r.error = NoError => nextId.user <= MaxUsers
          /\ users' = r.repo
          /\ nextId' = IF r.error = NoError THEN [nextId EXCEPT !.user = @ + 1] ELSE nextId
          /\ calls' = [calls EXCEPT ![p] =
                          [pc |-> IF r.error = NoError THEN "done" ELSE "failed",
                           data |-> data, error |-> r.error]]
    /\ UNCHANGED <<places, reviews, amenities, tokens, clock>>

NextConcurrent ==
    \/ \E p \in DOMAIN calls, d \in UserCreateInputs : CreateUserCheck(p, d)
    \/ \E p \in DOMAIN calls : CreateUserAdd(p)

SpecConcurrent == Init /\ [][NextConcurrent]_vars

InitStocked ==
    /\ users = RegisteredUsers
    /\ places = RegisteredPlaces
    /\ reviews = <<[id |-> Id("review", 1), text |-> "Nice", rating |-> 5,
                    user_id |-> Id("user", 2), place_id |-> Id("place", 2),
                    created_at |-> 0, updated_at |-> 0]>>
    /\ amenities = <<[id |-> Id("amenity", 1), name |-> "Wifi",
                      created_at |-> 0, updated_at |-> 0]>>
    /\ tokens = RegisteredTokens
    /\ nextId = [user |-> 3, place |-> 3, review |-> 2, amenity |-> 2]
    /\ calls = NoCalls
    /\ clock = 0

UserUpdateInputs ==
    {<<KV("first_name", "Bo"), KV("last_name", "Roy")>>,
     <<KV("first_name", "Bo"), KV("last_name", "")>>,
     <<KV("last_name", "Roy"), KV("first_name", "  ")>>,
     <<KV("password", "pw2"), KV("first_name", "")>>,
     <<KV("is_admin", TRUE), KV("email", "nope")>>}

PlaceUpdateInputs ==
    {<<KV("title", "Flat"), KV("price", 10)>>,
     <<KV("title", "Flat"), KV("price", 0)>>,
     <<KV("price", 10), KV("title", "")>>,
     <<KV("description", "New"), KV("latitude", 91)>>,
     <<KV("price", 10), KV("longitude", -181)>>}

ReviewUpdateInputs ==
    {ReviewData("Bad", 3, Id("place", 2)), ReviewData("Bad", 0, Id("place", 2)),
     ReviewData("Bad", 6, Id("place", 1)), ReviewData("", 3, Id("place", 2))}

AmenityUpdateInputs ==
    {<<KV("name", "Pool")>>, <<KV("created_at", 1), KV("name", "")>>,
     <<KV("name", "  "), KV("created_at", 1)>>}

NextUpdates ==
    \/ Tick
    \/ \E tok \in Actors, u \in UserIdInputs, d \in UserUpdateInputs : UserPut(tok, u, d)
    \/ \E tok \in Actors, p \in PlaceIdInputs, d \in PlaceUpdateInputs : PlacePut(tok, p, d)
    \/ \E tok \in Actors, r \in ReviewIdInputs, d \in ReviewUpdateInputs : ReviewPut(tok, r, d)
    \/ \E tok \in Actors, a \in AmenityIdInputs, d \in AmenityUpdateInputs : AmenityPut(tok, a, d)

SpecUpdates == InitStocked /\ [][NextUpdates]_vars

\* a payload one of whose values the setter of its key refuses
HasInvalidField(kind, d) == \E i \in DOMAIN d : SetterError(kind, d[i].k, d[i].v) # NoError

UserIdentityPayloads ==
    {<<KV("id", Id("user", 9))>>, <<KV("created_at", 9)>>,
     <<KV("first_name", "Bo"), KV("id", Id("user", 9))>>}

PlaceIdentityPayloads ==
    {<<KV("id", Id("place", 9))>>, <<KV("created_at", 9)>>,
     <<KV("title", "Flat"), KV("id", Id("place", 9))>>}

ReviewIdentityPayloads ==
    {Append(ReviewData("Bad", 3, Id("place", 2)), KV("id", Id("review", 9))),
     Append(ReviewData("Bad", 3, Id("place", 2)), KV("created_at", 9))}

AmenityIdentityPayloads ==
    {<<KV("name", "Pool"), KV("id", Id("amenity", 9))>>,
     <<KV("name", "Pool"), KV("created_at", 9)>>}

\* C29: no update of a user, place, review or amenity, whatever its payload
\* (one carrying an id or a created_at key included), changes the id or the
\* created_at of the stored entity.
C29_IdAndCreatedAtFixed ==
    \A tok \in tokens :
        /\ \A i \in DOMAIN users, d \in UserUpdateInputs \cup UserIdentityPayloads :
              LET r == UserPutResult(tok, users[i].id, d) IN
              r.users[i].id = users[i].id /\ r.users[i].created_at = users[i].created_at
        /\ \A i \in DOMAIN places, d \in PlaceUpdateInputs \cup PlaceIdentityPayloads :
              LET r == PlacePutResult(tok, places[i].id, d) IN
              r.places[i].id = places[i].id /\ r.places[i].created_at = places[i].created_at
        /\ \A i \in DOMAIN reviews, d \in ReviewUpdateInputs \cup ReviewIdentityPayloads :
              LET r == ReviewPutResult(tok, reviews[i].id, d) IN
              r.reviews[i].id = reviews[i].id /\ r.reviews[i].created_at = reviews[i].created_at
        /\ \A i \in DOMAIN amenities, d \in AmenityUpdateInputs \cup AmenityIdentityPayloads :
              LET r == AmenityPutResult(tok, amenities[i].id, d) IN
              /\ r.amenities[i].id = amenities[i].id
              /\ r.amenities[i].created_at = amenities[i].created_at

\* C13: create_place with an owner_id that is absent or names no stored user
\* fails with the owner validation error, whatever the other fields are, and
\* the stored places are unchanged.
C13_InvalidOwnerRejected ==
    \A d \in FacadePlaceCreateInputs :
        (~Has(d, "owner_id") \/ ~\E u \in Rows(users) : u.id = Get(d, "owner_id")) =>
            /\ FacadeCreatePlace(d).error = InvalidOwner
            /\ FacadeCreatePlace(d).places = places

\* a user and a place are stored, and a create_place naming an id that no
\* stored user has is refused
C13_Witness ==
    /\ Len(users) >= 1
    /\ Len(places) >= 1
    /\ \E d \in FacadePlaceCreateInputs :
          /\ Has(d, "owner_id")
          /\ Get(d, "owner_id") \notin Ids(users)
          /\ Get(d, "price") = 250
          /\ FacadeCreatePlace(d).error = InvalidOwner

====
